---- MODULE Spec2Model ----
(***************************************************************************)
(* A model of src/lend.py: one run of the funding-offer placement bot.     *)
(*                                                                         *)
(* Amounts are whole USDT.  A daily rate is an integer number of 1e-8      *)
(* (RATE_ONE is 1.0); a rate handed to submit_offer is kept in units of    *)
(* 1e-12 so that last_rate * (1 + offset) is exact (offsets are multiples  *)
(* of 1e-4, OFFSET_ONE is 1.0).  Python's Optional[float] is a set with    *)
(* no element (None) or one element.  Floating-point rounding is not       *)
(* modelled: the arithmetic is exact.                                      *)
(***************************************************************************)
EXTENDS Integers, Sequences, FiniteSets

VARIABLES
    pc,             \* position of main()
    credentials,    \* API_KEY and API_SECRET are both set
    MIN_APY_GUARD,  \* float(os.getenv("MIN_APY_GUARD", "0")), in percent
    ASSET_CODE,     \* the global ASSET_CODE
    resp,           \* the HTTP response being handled by the current adapter call
    http_issued,    \* some HTTP request was issued (requests.post / requests.get ran)
    cancel_count,   \* number of cancel-all requests sent
    cancel_symbol,  \* "symbol" of the body of the cancel-all request sent
    wallet_code,    \* ASSET_CODE the balance read selected the wallet row with
    free_bal,       \* main: free_bal
    last_rate,      \* main: last_rate, once resolved
    guard_warned,   \* the low-APY warning of line 269 was printed
    remaining,      \* place_limit_offers_around_last_rate / main: remaining
    idx,            \* place_limit_offers_around_last_rate: idx
    loop_exit,      \* how the primary loop ended
    last_submit,    \* the last submit_offer call and its attempts
    offers,         \* the offers the exchange accepted, in order
    sweep,          \* the final sweep step
    idle_warned,    \* the idle warning of line 286 was printed
    reported        \* what the run reported when it returned

vars == <<pc, credentials, MIN_APY_GUARD, ASSET_CODE, resp, http_issued, cancel_count,
          cancel_symbol, wallet_code, free_bal, last_rate, guard_warned, remaining,
          idx, loop_exit, last_submit, offers, sweep, idle_warned, reported>>

----------------------------------------------------------------------------
(* Program constants *)

MIN_OFFER == 150
CHUNK_SIZE == 1000
DURATION_D == 2
IDLE_WARN_THRESHOLD == 200
SYMBOL_PREFERRED == "fUSDT"
SYMBOL_FALLBACK == "fUST"

\* 1.0 as an offset (offsets are multiples of 0.0001) and as a daily rate (1e-8).
OFFSET_ONE == 10000
RATE_ONE == OFFSET_ONE * OFFSET_ONE

\* [-0.0005, -0.0003, -0.0001, 0.0, 0.0001, 0.0003, 0.0005]
SPREAD_OFFSETS == <<-5, -3, -1, 0, 1, 3, 5>>

\* 0.000001, the floor of a submitted rate, in 1e-12.
RATE_FLOOR == 100 * OFFSET_ONE
\* 0.0002, the hardcoded fallback anchor, in 1e-8.
FRR_FLOOR == 2 * OFFSET_ONE

----------------------------------------------------------------------------
(* Bounds of the inputs *)

AmountUnit == 50
MaxUnits == 144
Amounts == {k * AmountUnit : k \in 0..MaxUnits}

\* Rates a market-data response may carry: negative, zero, below the 1e-6
\* floor (0.0000005), and an ordinary one (0.0003).
MarketRates == {-3 * OFFSET_ONE, 0, 50, 3 * OFFSET_ONE}
BookRates == {-3 * OFFSET_ONE, 3 * OFFSET_ONE}
GuardValues == {0, 5}

None == {}
Some(v) == {v}
Val(o) == CHOOSE v \in o : TRUE

Max(a, b) == IF a >= b THEN a ELSE b
Min(a, b) == IF a <= b THEN a ELSE b
SetMax(S) == CHOOSE x \in S : \A y \in S : y <= x
SetMin(S) == CHOOSE x \in S : \A y \in S : x <= y

RECURSIVE SumAmounts(_)
SumAmounts(s) == IF s = <<>> THEN 0 ELSE Head(s).amount + SumAmounts(Tail(s))

----------------------------------------------------------------------------
(* Responses of the exchange *)

NoResp == [kind |-> "none"]

WalletTypes == {"funding", "exchange"}
WalletCurrencies == {"UST", "USDT"}
WalletRow(t, c, a) == [wtype |-> t, currency |-> c, available |-> a]
\* A second wallet row carries one of these amounts.
SecondRowAmounts == {0, MIN_OFFER}
WalletRowLists ==
    {<<>>}
    \cup {<<WalletRow(t, c, a)>> : t \in WalletTypes, c \in WalletCurrencies, a \in Amounts}
    \cup {<<WalletRow(x[1], x[2], x[3]), WalletRow(y[1], y[2], y[3])>> :
            x \in WalletTypes \X WalletCurrencies \X Amounts,
            y \in WalletTypes \X WalletCurrencies \X SecondRowAmounts}
WalletResponses ==
    {[kind |-> "wallets", ok |-> FALSE, rows |-> <<>>]}
    \cup {[kind |-> "wallets", ok |-> TRUE, rows |-> r] : r \in WalletRowLists}

\* /v2/trades/funding/.../hist: an error, an empty list, or one row
\* [ID, MTS, AMOUNT, RATE, PERIOD] (cols = 5) or a shorter row.
TradesResponses ==
    {[kind |-> "trades", ok |-> FALSE, rows |-> <<>>],
     [kind |-> "trades", ok |-> TRUE, rows |-> <<>>]}
    \cup {[kind |-> "trades", ok |-> TRUE, rows |-> <<[cols |-> n, rate |-> r]>>] :
            n \in {4, 5}, r \in MarketRates}

\* /v2/funding/stats/.../last: an error, a scalar, or a list of 0, 1 or 2
\* numbers (the 2-list is [MTS, VALUE]; -1 stands for the timestamp).
StatsResponses ==
    {[kind |-> "stats", ok |-> FALSE, shape |-> "scalar", data |-> <<>>],
     [kind |-> "stats", ok |-> TRUE, shape |-> "list", data |-> <<>>]}
    \cup {[kind |-> "stats", ok |-> TRUE, shape |-> "scalar", data |-> <<v>>] : v \in MarketRates}
    \cup {[kind |-> "stats", ok |-> TRUE, shape |-> "list", data |-> <<v>>] : v \in MarketRates}
    \cup {[kind |-> "stats", ok |-> TRUE, shape |-> "list", data |-> <<-1, v>>] : v \in MarketRates}

\* /v2/book/funding/.../R0: an error, or rows [RATE, PERIOD, COUNT, AMOUNT].
BookRowSet == {[rate |-> r, amount |-> a] : r \in BookRates, a \in {-100, 100}}
BookResponses ==
    {[kind |-> "book", ok |-> FALSE, rows |-> {}]}
    \cup {[kind |-> "book", ok |-> TRUE, rows |-> rs] : rs \in SUBSET BookRowSet}

----------------------------------------------------------------------------
(* Pure functions of lend.py *)

\* a * b / RATE_ONE, rounded down, without leaving 32 bits.
MulFix(a, b) ==
    LET a1 == a \div OFFSET_ONE
        a0 == a % OFFSET_ONE
        b1 == b \div OFFSET_ONE
        b0 == b % OFFSET_ONE
    IN  a1 * b1 + ((a1 * b0 + a0 * b1 + ((a0 * b0) \div OFFSET_ONE)) \div OFFSET_ONE)

\* x ** n by squaring; each power is bound once it is computed, so that it
\* is computed once.
RECURSIVE PowFix(_, _)
PowFix(x, n) ==
    IF n = 0 THEN RATE_ONE
    ELSE IF n % 2 = 0
         THEN CHOOSE p \in {MulFix(h, h) : h \in {PowFix(x, n \div 2)}} : TRUE
         ELSE CHOOSE p \in {MulFix(x, h) : h \in {PowFix(x, n - 1)}} : TRUE

\* (1.0 + d) ** 365 - 1.0, in 1e-8.
daily_to_apy(d) == PowFix(RATE_ONE + d, 365) - RATE_ONE

\* daily_to_apy(last_rate) * 100 < MIN_APY_GUARD, guard in percent.
ApyBelowGuard(rate, guard) == daily_to_apy(rate) < guard * (RATE_ONE \div 100)

\* The new ASSET_CODE after autodetect_wallet_currency(rows).
autodetect_wallet_currency(code, rows) ==
    LET seen == {rows[i].currency : i \in DOMAIN rows}
    IN  IF "USDT" \in seen THEN "USDT"
        ELSE IF "UST" \in seen THEN "UST"
        ELSE code

\* The value get_free_usdt_balance returns for a wallets response, with the
\* ASSET_CODE in force when the rows are scanned.
WalletFree(code, rows) ==
    SetMax({0} \cup {rows[i].available :
                i \in {j \in DOMAIN rows : rows[j].wtype = "funding"
                                            /\ rows[j].currency = code}})

\* funding_best_bid_ask: <<best_bid, best_ask>>, each Optional.
funding_best_bid_ask(r) ==
    IF ~r.ok THEN <<None, None>>
    ELSE LET bids == {x.rate : x \in {y \in r.rows : y.amount > 0}}
             asks == {x.rate : x \in {y \in r.rows : y.amount < 0}}
         IN  <<IF bids # {} THEN Some(SetMax(bids)) ELSE None,
               IF asks # {} THEN Some(SetMin(asks)) ELSE None>>

\* Python truth of an Optional[float]: neither None nor 0.0.
Truthy(o) == o # None /\ Val(o) # 0

\* fetch_last_matched_daily_rate: Optional rate.
fetch_last_matched_daily_rate(r) ==
    IF r.ok /\ r.rows # <<>> /\ r.rows[1].cols >= 5 /\ r.rows[1].rate > 0
    THEN Some(r.rows[1].rate)
    ELSE None

\* A stats parse that reads the first field of the [MTS, VALUE] pair.
FrrFromStatsFirstField(r) ==
    IF ~r.ok THEN None
    ELSE IF r.data # <<>> /\ r.data[1] > 0 THEN Some(r.data[1]) ELSE None

\* The first half of fetch_frr_daily_rate: the value it returns from the
\* stats response, or None when it goes on to the order book.
FrrFromStats(r) ==
    IF ~r.ok THEN None
    ELSE IF r.shape = "list"
         THEN IF Len(r.data) >= 2
              THEN (IF r.data[2] > 0 THEN Some(r.data[2]) ELSE None)
              ELSE IF Len(r.data) = 1
                   THEN (IF r.data[1] > 0 THEN Some(r.data[1]) ELSE None)
                   ELSE None
         ELSE IF r.data[1] > 0 THEN Some(r.data[1]) ELSE None

\* The second half of fetch_frr_daily_rate, lines 185-188.
FrrFromBook(r) ==
    LET ba == funding_best_bid_ask(r)
        best_bid == ba[1]
        best_ask == ba[2]
    IN  IF Truthy(best_bid) /\ Truthy(best_ask)
        THEN (Val(best_bid) + Val(best_ask)) \div 2
        ELSE Max(IF Truthy(best_bid) THEN Val(best_bid) ELSE FRR_FLOOR, FRR_FLOOR)

\* A target rate without the floor.
TargetRateNoFloor(rate, offset) == rate * (OFFSET_ONE + offset)

\* max(last_rate * (1.0 + offset), 0.000001), in 1e-12.
TargetRate(rate, offset) == Max(rate * (OFFSET_ONE + offset), RATE_FLOOR)

\* f"{rate:.6f}": the rate on the wire, a number of 1e-6.
FormatRate(fine) == (fine + (RATE_FLOOR \div 2)) \div RATE_FLOOR

auto_renew_flag == 1024

\* A submit_offer without the fallback retry.
submit_offer_no_retry(pref_ok, fb_ok) ==
    [attempts |-> <<[symbol |-> SYMBOL_PREFERRED, ok |-> pref_ok]>>, ok |-> pref_ok]

\* submit_offer: the attempts it makes and whether it returns (ok) or raises,
\* given whether the exchange accepts the preferred and the fallback symbol.
submit_offer(pref_ok, fb_ok) ==
    IF pref_ok
    THEN [attempts |-> <<[symbol |-> SYMBOL_PREFERRED, ok |-> TRUE]>>, ok |-> TRUE]
    ELSE [attempts |-> <<[symbol |-> SYMBOL_PREFERRED, ok |-> FALSE],
                         [symbol |-> SYMBOL_FALLBACK, ok |-> fb_ok]>>,
          ok |-> fb_ok]

\* The submit_offer call as the run records it.
SubmitRecord(phase, amt, rate, offset, res) ==
    [phase |-> phase, amount |-> amt, rate |-> rate, wire_rate |-> FormatRate(rate),
     offset |-> offset, period |-> DURATION_D, oftype |-> "LIMIT",
     flags |-> auto_renew_flag, attempts |-> res.attempts, ok |-> res.ok]

NoSubmit ==
    [phase |-> "none", amount |-> 0, rate |-> 0, wire_rate |-> 0, offset |-> 0,
     period |-> 0, oftype |-> "none", flags |-> 0, attempts |-> <<>>, ok |-> FALSE]

Offer(s) == [phase |-> s.phase, amount |-> s.amount, rate |-> s.rate, offset |-> s.offset]

----------------------------------------------------------------------------
(* The run: main() *)

Init ==
    /\ pc = "cancel"
    /\ credentials \in BOOLEAN
    /\ MIN_APY_GUARD \in GuardValues
    /\ ASSET_CODE = "UST"
    /\ resp = NoResp
    /\ http_issued = FALSE
    /\ cancel_count = 0
    /\ cancel_symbol = "none"
    /\ wallet_code = "none"
    /\ free_bal = 0
    /\ last_rate = 0
    /\ guard_warned = FALSE
    /\ remaining = 0
    /\ idx = 0
    /\ loop_exit = "none"
    /\ last_submit = NoSubmit
    /\ offers = <<>>
    /\ sweep = "none"
    /\ idle_warned = FALSE
    /\ reported = "none"

\* A private request that goes out whether or not the credentials are set.
PrivateRequestSentAlways == TRUE

\* _post_private's check of the credentials: the request goes out only with them.
PrivateRequestSent == credentials

\* cancel_all_usdt_offers: the request carries the current ASSET_CODE; its
\* outcome, and a missing credential, are only printed.
CancelAll ==
    /\ pc = "cancel"
    /\ \E ok \in BOOLEAN :
         /\ http_issued' = (http_issued \/ PrivateRequestSent)
         /\ cancel_count' = IF PrivateRequestSent THEN cancel_count + 1 ELSE cancel_count
         /\ cancel_symbol' = IF PrivateRequestSent THEN ASSET_CODE ELSE cancel_symbol
    /\ pc' = "wallets"
    /\ UNCHANGED <<credentials, MIN_APY_GUARD, ASSET_CODE, resp, wallet_code, free_bal,
                   last_rate, guard_warned, remaining, idx, loop_exit, last_submit,
                   offers, sweep, idle_warned, reported>>

\* get_free_usdt_balance, line 99: the wallets request and its response.
RequestWallets ==
    /\ pc = "wallets"
    /\ IF PrivateRequestSent
       THEN /\ resp' \in WalletResponses
            /\ http_issued' = TRUE
       ELSE /\ resp' = [kind |-> "wallets", ok |-> FALSE, rows |-> <<>>]
            /\ UNCHANGED http_issued
    /\ pc' = "balance"
    /\ UNCHANGED <<credentials, MIN_APY_GUARD, ASSET_CODE, cancel_count, cancel_symbol,
                   wallet_code, free_bal, last_rate, guard_warned, remaining, idx,
                   loop_exit, last_submit, offers, sweep, idle_warned, reported>>

\* The free balance main() goes on with.
MainFreeBalance(code, r) == IF r.ok THEN WalletFree(code, r.rows) ELSE 0

\* A test that stops the run for an empty balance only.
NothingToLendZero(bal) == bal <= 0

\* main's test of line 254.
NothingToLend(bal) == bal < MIN_OFFER

\* get_free_usdt_balance, lines 100-116, and main, lines 251-256.
GetFreeBalance ==
    /\ pc = "balance"
    /\ LET code == IF resp.ok /\ resp.rows # <<>>
                   THEN autodetect_wallet_currency(ASSET_CODE, resp.rows)
                   ELSE ASSET_CODE
           bal == MainFreeBalance(code, resp)
       IN  /\ ASSET_CODE' = code
           /\ wallet_code' = IF resp.ok /\ resp.rows # <<>> THEN code ELSE wallet_code
           /\ free_bal' = bal
           /\ IF NothingToLend(bal)
              THEN /\ pc' = "done"
                   /\ reported' = "nothing_to_lend"
              ELSE /\ pc' = "trades"
                   /\ UNCHANGED reported
    /\ resp' = NoResp
    /\ UNCHANGED <<credentials, MIN_APY_GUARD, http_issued, cancel_count, cancel_symbol,
                   last_rate, guard_warned, remaining, idx, loop_exit, last_submit,
                   offers, sweep, idle_warned>>

\* fetch_last_matched_daily_rate, line 154: the request and its response.
RequestTrades ==
    /\ pc = "trades"
    /\ resp' \in TradesResponses
    /\ http_issued' = TRUE
    /\ pc' = "last_matched"
    /\ UNCHANGED <<credentials, MIN_APY_GUARD, ASSET_CODE, cancel_count, cancel_symbol,
                   wallet_code, free_bal, last_rate, guard_warned, remaining, idx,
                   loop_exit, last_submit, offers, sweep, idle_warned, reported>>

\* fetch_last_matched_daily_rate, lines 155-163, and main, lines 259-263.
FetchLastMatched ==
    /\ pc = "last_matched"
    /\ LET r == fetch_last_matched_daily_rate(resp)
       IN  IF Truthy(r)
           THEN /\ last_rate' = Val(r)
                /\ pc' = "guard"
           ELSE /\ UNCHANGED last_rate
                /\ pc' = "stats"
    /\ resp' = NoResp
    /\ UNCHANGED <<credentials, MIN_APY_GUARD, ASSET_CODE, http_issued, cancel_count,
                   cancel_symbol, wallet_code, free_bal, guard_warned, remaining, idx,
                   loop_exit, last_submit, offers, sweep, idle_warned, reported>>

\* fetch_frr_daily_rate, line 168: the request and its response.
RequestStats ==
    /\ pc = "stats"
    /\ resp' \in StatsResponses
    /\ http_issued' = TRUE
    /\ pc' = "frr"
    /\ UNCHANGED <<credentials, MIN_APY_GUARD, ASSET_CODE, cancel_count, cancel_symbol,
                   wallet_code, free_bal, last_rate, guard_warned, remaining, idx,
                   loop_exit, last_submit, offers, sweep, idle_warned, reported>>

\* fetch_frr_daily_rate, lines 169-184.
FetchFrrStats ==
    /\ pc = "frr"
    /\ LET r == FrrFromStats(resp)
       IN  IF r # None
           THEN /\ last_rate' = Val(r)
                /\ pc' = "guard"
           ELSE /\ UNCHANGED last_rate
                /\ pc' = "book"
    /\ resp' = NoResp
    /\ UNCHANGED <<credentials, MIN_APY_GUARD, ASSET_CODE, http_issued, cancel_count,
                   cancel_symbol, wallet_code, free_bal, guard_warned, remaining, idx,
                   loop_exit, last_submit, offers, sweep, idle_warned, reported>>

\* funding_best_bid_ask, line 131: the request and its response.
RequestBook ==
    /\ pc = "book"
    /\ resp' \in BookResponses
    /\ http_issued' = TRUE
    /\ pc' = "frr_book"
    /\ UNCHANGED <<credentials, MIN_APY_GUARD, ASSET_CODE, cancel_count, cancel_symbol,
                   wallet_code, free_bal, last_rate, guard_warned, remaining, idx,
                   loop_exit, last_submit, offers, sweep, idle_warned, reported>>

\* funding_best_bid_ask, lines 132-146, and fetch_frr_daily_rate, lines 185-188.
FetchFrrBook ==
    /\ pc = "frr_book"
    /\ last_rate' = FrrFromBook(resp)
    /\ pc' = "guard"
    /\ resp' = NoResp
    /\ UNCHANGED <<credentials, MIN_APY_GUARD, ASSET_CODE, http_issued, cancel_count,
                   cancel_symbol, wallet_code, free_bal, guard_warned, remaining, idx,
                   loop_exit, last_submit, offers, sweep, idle_warned, reported>>

\* A ladder that the low-APY warning collapses to the single offset 0.
LadderCollapsed(warned) == IF warned THEN <<0>> ELSE SPREAD_OFFSETS

\* The ladder place_limit_offers_around_last_rate prices its chunks with.
Ladder(warned) == SPREAD_OFFSETS

\* main, lines 266-272, and place_limit_offers_around_last_rate, lines 222-224.
ApyGuard ==
    /\ pc = "guard"
    /\ guard_warned' = (MIN_APY_GUARD > 0 /\ ApyBelowGuard(last_rate, MIN_APY_GUARD))
    /\ remaining' = free_bal
    /\ idx' = 0
    /\ pc' = "loop"
    /\ UNCHANGED <<credentials, MIN_APY_GUARD, ASSET_CODE, resp, http_issued, cancel_count,
                   cancel_symbol, wallet_code, free_bal, last_rate, loop_exit,
                   last_submit, offers, sweep, idle_warned, reported>>

\* A chunk that is not capped at CHUNK_SIZE.
ChunkAmountUncapped(rem) == rem

\* The amount of the next chunk, line 226.
ChunkAmount(rem) == Min(CHUNK_SIZE, rem)

\* A loop that places full chunks only.
LoopContinuesFullChunk(rem) == rem >= CHUNK_SIZE

\* The loop goes on for another chunk: lines 225-228.
LoopContinues(rem) == rem >= MIN_OFFER /\ ChunkAmount(rem) >= MIN_OFFER

\* An offset index that stays on the last ladder entry instead of wrapping.
ChunkOffsetNoWrap(ladder, i) == ladder[Min(i, Len(ladder) - 1) + 1]

\* The offset of chunk i (0-based), line 229.
ChunkOffset(ladder, i) == ladder[(i % Len(ladder)) + 1]

\* A loop that reserves the chunk before it knows the submission succeeded.
RemainingAfterAlways(rem, amt, ok) == rem - amt

\* remaining after a chunk of amt was submitted with result ok, lines 237, 239.
RemainingAfter(rem, amt, ok) == IF ok THEN rem - amt ELSE rem

\* A loop that cancels all offers again after each accepted chunk.
AfterChunkCancel(ok) == IF ok THEN "cancel" ELSE "sweep"

\* A loop that goes on to the next pass after a failed submission.
AfterChunkRetry(ok) == "loop"

\* pc after a chunk was submitted with result ok: the loop goes on or breaks.
AfterChunk(ok) == IF ok THEN "loop" ELSE "sweep"

\* One pass of the while loop of place_limit_offers_around_last_rate,
\* lines 225-242; leaving the loop returns remaining to main.
PlaceChunk ==
    /\ pc = "loop"
    /\ IF LoopContinues(remaining)
       THEN \E pref_ok \in BOOLEAN, fb_ok \in BOOLEAN :
              LET amt == ChunkAmount(remaining)
                  offset == ChunkOffset(Ladder(guard_warned), idx)
                  target_rate == TargetRate(last_rate, offset)
                  call == SubmitRecord("primary", amt, target_rate, offset,
                                       submit_offer(pref_ok, fb_ok))
              IN  /\ last_submit' = call
                  /\ http_issued' = TRUE
                  /\ remaining' = RemainingAfter(remaining, amt, call.ok)
                  /\ pc' = AfterChunk(call.ok)
                  /\ IF call.ok
                     THEN /\ offers' = Append(offers, Offer(call))
                          /\ idx' = idx + 1
                          /\ UNCHANGED loop_exit
                     ELSE /\ loop_exit' = "error"
                          /\ UNCHANGED <<offers, idx>>
       ELSE /\ loop_exit' = "drained"
            /\ pc' = "sweep"
            /\ UNCHANGED <<last_submit, http_issued, remaining, offers, idx>>
    /\ UNCHANGED <<credentials, MIN_APY_GUARD, ASSET_CODE, resp, cancel_count,
                   cancel_symbol, wallet_code, free_bal, last_rate, guard_warned,
                   sweep, idle_warned, reported>>

\* A sweep of any positive remainder.
SweepNeededAny(rem) == rem > 0

\* main's test of line 275.
SweepNeeded(rem) == rem >= MIN_OFFER

\* A sweep capped at one chunk.
SweepAmountChunk(rem) == Min(CHUNK_SIZE, rem)

\* amt = remaining, line 277.
SweepAmount(rem) == rem

\* max(last_rate, 0.000001), in 1e-12.
SweepRate(rate) == Max(rate * OFFSET_ONE, RATE_FLOOR)

\* main, lines 274-283: the final sweep.
FinalSweep ==
    /\ pc = "sweep"
    /\ IF SweepNeeded(remaining)
       THEN \E pref_ok \in BOOLEAN, fb_ok \in BOOLEAN :
              LET call == SubmitRecord("sweep", SweepAmount(remaining), SweepRate(last_rate), 0,
                                       submit_offer(pref_ok, fb_ok))
              IN  /\ last_submit' = call
                  /\ http_issued' = TRUE
                  /\ IF call.ok
                     THEN /\ offers' = Append(offers, Offer(call))
                          /\ remaining' = 0
                          /\ sweep' = "ok"
                     ELSE /\ sweep' = "error"
                          /\ UNCHANGED <<offers, remaining>>
       ELSE /\ sweep' = "skipped"
            /\ UNCHANGED <<last_submit, http_issued, offers, remaining>>
    /\ pc' = "idle"
    /\ UNCHANGED <<credentials, MIN_APY_GUARD, ASSET_CODE, resp, cancel_count,
                   cancel_symbol, wallet_code, free_bal, last_rate, guard_warned,
                   idx, loop_exit, idle_warned, reported>>

\* A warning for any balance left over.
IdleWarnNeededAny(rem) == rem > 0

\* main's test of line 285.
IdleWarnNeeded(rem) == rem >= IDLE_WARN_THRESHOLD

\* main, lines 285-288.
IdleWarn ==
    /\ pc = "idle"
    /\ idle_warned' = IdleWarnNeeded(remaining)
    /\ reported' = "complete"
    /\ pc' = "done"
    /\ UNCHANGED <<credentials, MIN_APY_GUARD, ASSET_CODE, resp, http_issued, cancel_count,
                   cancel_symbol, wallet_code, free_bal, last_rate, guard_warned,
                   remaining, idx, loop_exit, last_submit, offers, sweep>>

Next ==
    \/ CancelAll
    \/ RequestWallets
    \/ GetFreeBalance
    \/ RequestTrades
    \/ FetchLastMatched
    \/ RequestStats
    \/ FetchFrrStats
    \/ RequestBook
    \/ FetchFrrBook
    \/ ApyGuard
    \/ PlaceChunk
    \/ FinalSweep
    \/ IdleWarn

Spec == Init /\ [][Next]_vars

----------------------------------------------------------------------------
(* Properties *)

PrimaryOffers == SelectSeq(offers, LAMBDA o : o.phase = "primary")
SweepOffers == SelectSeq(offers, LAMBDA o : o.phase = "sweep")

\* The variable remaining exists: place_limit_offers_around_last_rate was entered.
RemainingDefined == pc \in {"loop", "sweep", "idle"} \/ reported = "complete"

\* C1: when the primary loop ended with every submission successful, the
\* amounts of its offers sum to B - r, r the returned remaining, 0 <= r < MIN_OFFER.
C1_PrimaryDrains ==
    loop_exit = "drained" =>
        /\ SumAmounts(PrimaryOffers) = free_bal - remaining
        /\ 0 <= remaining
        /\ remaining < MIN_OFFER

C1_Witness ==
    /\ loop_exit = "drained"
    /\ Len(PrimaryOffers) >= 2
    /\ remaining > 0

\* C2 as stated: every submitted offer, primary chunk or final sweep, accepted
\* or not, has MIN_OFFER <= amount <= CHUNK_SIZE.
C2_Original ==
    last_submit.phase # "none" =>
        (last_submit.amount >= MIN_OFFER /\ last_submit.amount <= CHUNK_SIZE)

\* C2 amended: every primary chunk has MIN_OFFER <= amount <= CHUNK_SIZE; the
\* final sweep offer has amount >= MIN_OFFER and is bounded by the starting
\* balance only, not by CHUNK_SIZE.
C2_Amended ==
    /\ last_submit.phase = "primary" =>
         (last_submit.amount >= MIN_OFFER /\ last_submit.amount <= CHUNK_SIZE)
    /\ last_submit.phase = "sweep" =>
         (last_submit.amount >= MIN_OFFER /\ last_submit.amount <= free_bal)
    /\ \A i \in DOMAIN offers :
         /\ offers[i].amount >= MIN_OFFER
         /\ offers[i].phase = "primary" => offers[i].amount <= CHUNK_SIZE

C2_Witness ==
    /\ last_submit.phase = "sweep"
    /\ last_submit.ok
    /\ last_submit.amount > CHUNK_SIZE
    /\ Len(PrimaryOffers) >= 1

\* C3: wherever remaining exists it equals the starting balance minus the sum
\* of the accepted offers' amounts; it is never negative and the accepted
\* amounts never exceed the starting balance.
C3_RemainingIsBalanceMinusAccepted ==
    RemainingDefined =>
        /\ remaining = free_bal - SumAmounts(offers)
        /\ remaining >= 0
        /\ SumAmounts(offers) <= free_bal

C3_Witness ==
    /\ loop_exit = "error"
    /\ Len(PrimaryOffers) >= 2
    /\ pc = "sweep"
    /\ remaining > 0

\* A step of the primary loop whose submission failed.
PrimaryFailureStep ==
    pc = "loop" /\ last_submit'.phase = "primary" /\ ~last_submit'.ok

\* C4: a failed submission in the primary loop ends the loop at once: remaining
\* and the accepted offers are unchanged, control goes to the final sweep and
\* never back to the loop, no primary chunk is submitted after it, and the
\* sweep is attempted with the balance that remains.
C4_FailFast ==
    /\ [][/\ PrimaryFailureStep =>
               /\ pc' = "sweep"
               /\ remaining' = remaining
               /\ offers' = offers
               /\ idx' = idx
          /\ pc \in {"sweep", "idle", "done"} =>
               /\ pc' # "loop"
               /\ last_submit'.phase # "primary" \/ last_submit' = last_submit
          /\ (pc = "sweep" /\ last_submit.phase = "primary" /\ ~last_submit.ok) =>
               /\ last_submit'.phase = "sweep"
               /\ last_submit'.amount = remaining]_vars
    /\ []((last_submit.phase = "primary" /\ ~last_submit.ok) => pc = "sweep")

C4_Witness ==
    /\ loop_exit = "error"
    /\ Len(PrimaryOffers) >= 2
    /\ sweep = "ok"
    /\ last_submit.phase = "sweep"

\* The sweep step with the rate it is to carry.
SweepStepWithRate(rate) ==
    /\ pc = "sweep" => pc' = "idle"
    /\ (pc = "sweep" /\ remaining >= MIN_OFFER) =>
         /\ last_submit'.phase = "sweep"
         /\ last_submit'.amount = remaining
         /\ last_submit'.oftype = "LIMIT"
         /\ last_submit'.rate = rate
         /\ last_submit'.ok => (remaining' = 0 /\ Len(offers') = Len(offers) + 1
                                /\ offers'[Len(offers')].amount = remaining)
         /\ ~last_submit'.ok => (remaining' = remaining /\ offers' = offers)
    /\ (pc = "sweep" /\ remaining < MIN_OFFER) =>
         (last_submit' = last_submit /\ offers' = offers /\ remaining' = remaining)
    /\ pc # "sweep" =>
         /\ last_submit'.phase # "sweep" \/ last_submit' = last_submit
         /\ Len(SweepOffers') = Len(SweepOffers)
    /\ pc \in {"idle", "done"} => pc' # "sweep"

PrimaryRemainder == free_bal - SumAmounts(PrimaryOffers)

\* C6 as stated: a remainder of the primary phase below MIN_OFFER is emitted
\* by the sweep as one final offer.
C6_Original ==
    (reported = "complete" /\ loop_exit = "drained" /\ PrimaryRemainder > 0) =>
        /\ Len(SweepOffers) = 1
        /\ SweepOffers[1].amount = PrimaryRemainder

\* C6 amended: a remainder of the primary phase below MIN_OFFER is not
\* submitted: the sweep is skipped and the remainder stays unallocated; with
\* balance 1100 (chunk 1000, minimum 150) the run emits one offer of 1000 and
\* leaves 100.
C6_Amended ==
    /\ (loop_exit = "drained" /\ pc \in {"idle", "done"}) =>
         /\ sweep = "skipped"
         /\ SweepOffers = <<>>
         /\ remaining = PrimaryRemainder
         /\ last_submit.phase = "primary"
    /\ (loop_exit = "drained" /\ pc = "done"
          /\ free_bal = CHUNK_SIZE + AmountUnit + AmountUnit) =>
         /\ Len(offers) = 1
         /\ offers[1].amount = CHUNK_SIZE
         /\ remaining = AmountUnit + AmountUnit

C6_Witness ==
    /\ reported = "complete"
    /\ loop_exit = "drained"
    /\ free_bal = CHUNK_SIZE + AmountUnit + AmountUnit
    /\ remaining > 0
    /\ remaining < MIN_OFFER
    /\ sweep = "skipped"

C8_RoundRobin ==
    \A i \in DOMAIN PrimaryOffers :
        LET off == SPREAD_OFFSETS[((i - 1) % Len(SPREAD_OFFSETS)) + 1]
            r == last_rate * (OFFSET_ONE + off)
        IN  /\ PrimaryOffers[i].offset = off
            /\ PrimaryOffers[i].rate = IF r >= RATE_FLOOR THEN r ELSE RATE_FLOOR

C8_Witness ==
    /\ Len(PrimaryOffers) > Len(SPREAD_OFFSETS)
    /\ PrimaryOffers[Len(SPREAD_OFFSETS) + 1].offset = SPREAD_OFFSETS[1]
    /\ PrimaryOffers[Len(SPREAD_OFFSETS) + 1].rate # PrimaryOffers[Len(SPREAD_OFFSETS)].rate

\* C9: a submit_offer call tries the preferred symbol first; after a failure of
\* that attempt it tries the fallback symbol once; it makes at most two
\* attempts, none after a success, and fails only when both attempts failed.
C9_SymbolRetry ==
    last_submit.phase # "none" =>
        LET a == last_submit.attempts
        IN  /\ Len(a) \in {1, 2}
            /\ a[1].symbol = "fUSDT"
            /\ a[1].ok => (Len(a) = 1 /\ last_submit.ok)
            /\ ~a[1].ok => (Len(a) = 2 /\ a[2].symbol = "fUST"
                            /\ last_submit.ok = a[2].ok)
            /\ ~last_submit.ok <=> (\A i \in DOMAIN a : ~a[i].ok)

C9_Witness ==
    /\ last_submit.phase = "primary"
    /\ Len(last_submit.attempts) = 2
    /\ ~last_submit.attempts[1].ok
    /\ last_submit.attempts[2].ok
    /\ last_submit.ok
    /\ Len(offers) = 1

\* C10: a starting balance below MIN_OFFER, a failed balance fetch (which
\* yields 0) included, ends the run at once: no offer, no submission, and the
\* run reports that there is nothing to lend.
C10_NothingToLend ==
    /\ []((pc \notin {"cancel", "wallets", "balance"} /\ free_bal < MIN_OFFER) =>
            /\ pc = "done"
            /\ reported = "nothing_to_lend"
            /\ offers = <<>>
            /\ last_submit.phase = "none")
    /\ [][(pc = "balance" /\ ~resp.ok) =>
            (free_bal' = 0 /\ pc' = "done" /\ reported' = "nothing_to_lend")]_vars
    /\ [][reported = "nothing_to_lend" => UNCHANGED vars]_vars

C10_Witness ==
    /\ reported = "nothing_to_lend"
    /\ credentials
    /\ free_bal > 0
    /\ free_bal < MIN_OFFER
    /\ offers = <<>>
    /\ last_submit.phase = "none"


\* The rate computed for a submission before the floor is applied:
\* anchor * (1 + offset), where the sweep has offset 0.
ComputedRate(s) == last_rate * (OFFSET_ONE + s.offset)

\* C11: every rate passed to a submission, primary chunk or sweep, accepted or
\* not, is at least the floor 0.000001, on the wire too; when the computed
\* rate anchor * (1 + offset) is not positive it is exactly the floor.
C11_RateFloor ==
    /\ last_submit.phase # "none" =>
         /\ last_submit.rate >= RATE_FLOOR
         /\ last_submit.wire_rate >= 1
         /\ ComputedRate(last_submit) <= 0 => last_submit.rate = RATE_FLOOR
    /\ \A i \in DOMAIN offers :
         /\ offers[i].rate >= RATE_FLOOR
         /\ ComputedRate(offers[i]) <= 0 => offers[i].rate = RATE_FLOOR

C11_Witness ==
    /\ last_submit.phase = "primary"
    /\ last_submit.ok
    /\ ComputedRate(last_submit) < 0
    /\ last_submit.rate = RATE_FLOOR
    /\ Len(offers) >= 2


\* C12: the idle warning is issued only in a run whose final sweep was
\* attempted and failed; when no sweep was needed or the sweep succeeded, the
\* balance remaining after the sweep step is below IDLE_WARN_THRESHOLD; and
\* nothing is submitted or retried once the warning step is reached.
C12_IdleWarning ==
    /\ [](idle_warned => (sweep = "error" /\ last_submit.phase = "sweep" /\ ~last_submit.ok))
    /\ []((pc \in {"idle", "done"} /\ sweep \in {"skipped", "ok"}) =>
            remaining < IDLE_WARN_THRESHOLD)
    /\ [][pc = "idle" =>
            /\ pc' = "done"
            /\ idle_warned' = (sweep = "error" /\ remaining >= IDLE_WARN_THRESHOLD)
            /\ last_submit' = last_submit
            /\ offers' = offers
            /\ remaining' = remaining]_vars
    /\ [][pc = "done" => UNCHANGED vars]_vars

C12_Witness ==
    /\ idle_warned
    /\ sweep = "error"
    /\ remaining >= IDLE_WARN_THRESHOLD
    /\ Len(offers) >= 1
    /\ pc = "done"


\* The submit_offer calls the primary loop has made.
PrimarySubmissions == idx + (IF loop_exit = "error" THEN 1 ELSE 0)

\* The starting balance in chunks, rounded up.
BalanceInChunks == (free_bal + CHUNK_SIZE - 1) \div CHUNK_SIZE

\* How far main() is from returning.
StepsToGo(p) ==
    CASE p = "cancel" -> 13 [] p = "wallets" -> 12 [] p = "balance" -> 11
      [] p = "trades" -> 10 [] p = "last_matched" -> 9 [] p = "stats" -> 8
      [] p = "frr" -> 7 [] p = "book" -> 6 [] p = "frr_book" -> 5
      [] p = "guard" -> 4 [] p = "loop" -> 3 [] p = "sweep" -> 2
      [] p = "idle" -> 1 [] p = "done" -> 0

\* A step brings the run nearer to its return: it moves main() forward, or it
\* is a pass of the primary loop that lowers remaining, which stays >= 0.
RunAdvances ==
    \/ StepsToGo(pc') < StepsToGo(pc)
    \/ pc = "loop" /\ pc' = "loop" /\ remaining' < remaining /\ remaining' >= 0

\* C13 as stated: whatever calls fail, the run ends having completed its final
\* idle-warning step, and the primary loop makes at most one submission per
\* CHUNK_SIZE of balance, rounded up.
C13_Original ==
    /\ pc = "done" => reported = "complete"
    /\ PrimarySubmissions <= BalanceInChunks

\* C13 amended: whatever calls fail, the run terminates and no failure leaves
\* it (until it has returned a step is always possible, and every step brings
\* it nearer to its return): it completes its final idle-warning step when the balance read is at
\* least MIN_OFFER, and returns at "nothing to lend" when the balance read is
\* below MIN_OFFER (a failed balance call reads 0); the primary loop makes at
\* most one submission per CHUNK_SIZE of balance, rounded up.
C13_Amended ==
    /\ [](pc = "done" \/ ENABLED Next)
    /\ [][RunAdvances]_vars
    /\ [](pc = "done" =>
            \/ (free_bal >= MIN_OFFER /\ reported = "complete")
            \/ (free_bal < MIN_OFFER /\ reported = "nothing_to_lend"))
    /\ [](PrimarySubmissions <= BalanceInChunks)

C13_Witness ==
    /\ pc = "done"
    /\ reported = "complete"
    /\ last_rate = FRR_FLOOR
    /\ Len(offers) >= 1
    /\ loop_exit = "error"
    /\ sweep = "error"


----------------------------------------------------------------------------
\* The positions of main at which the anchor has been resolved.
AnchorResolved == pc \in {"guard", "loop", "sweep", "idle"} \/ reported = "complete"

\* C14: anchor resolution never fails and always yields a strictly positive
\* daily rate, whatever the last-trade, reference-rate and order-book
\* responses are: once resolved, the anchor is above zero.
C14_AnchorPositive == AnchorResolved => last_rate > 0


----------------------------------------------------------------------------
\* The bid and ask rates of the order-book response being parsed.
BookBids == {x.rate : x \in {y \in resp.rows : y.amount > 0}}
BookAsks == {x.rate : x \in {y \in resp.rows : y.amount < 0}}

\* C15: when the fallback chain reaches the order book and exactly one side
\* of it is present, the resolved rate is that side's rate alone (the best
\* bid, or the best ask); when both sides are present it is their midpoint.
C15_BookSides ==
    [][pc = "frr_book" =>
        /\ (BookBids # {} /\ BookAsks = {}) => last_rate' = SetMax(BookBids)
        /\ (BookBids = {} /\ BookAsks # {}) => last_rate' = SetMin(BookAsks)
        /\ (BookBids # {} /\ BookAsks # {}) =>
               last_rate' = (SetMax(BookBids) + SetMin(BookAsks)) \div 2]_vars


----------------------------------------------------------------------------
\* The rate of the most recent matched trade in the response being parsed:
\* a well-formed first row with a positive rate, or 0 when there is none.
TradeRate ==
    IF resp.ok /\ Len(resp.rows) >= 1 /\ resp.rows[1].cols >= 5 /\ resp.rows[1].rate > 0
    THEN resp.rows[1].rate
    ELSE 0

\* The published reference rate in the response being parsed (a scalar, a
\* single value, or the VALUE of [MTS, VALUE]), or 0 when there is none.
PublishedRate ==
    IF ~resp.ok THEN 0
    ELSE IF resp.shape = "scalar" THEN resp.data[1]
    ELSE IF Len(resp.data) >= 2 THEN resp.data[2]
    ELSE IF Len(resp.data) = 1 THEN resp.data[1]
    ELSE 0

----------------------------------------------------------------------------
\* C17: in a run with missing API credentials no HTTP request is issued,
\* private (cancel, wallets, submit) or public (trades, reference rate,
\* book): the run never gets past the balance read and ends there.
C17_NoCredentialsNoRequest ==
    ~credentials =>
        /\ ~http_issued
        /\ cancel_count = 0
        /\ last_submit.phase = "none"
        /\ offers = <<>>
        /\ pc \in {"cancel", "wallets", "balance", "done"}
        /\ resp.kind \in {"none", "wallets"}
        /\ pc = "done" => reported = "nothing_to_lend"

\* A run without credentials that has ended.
C17_Witness == ~credentials /\ pc = "done" /\ reported = "nothing_to_lend"


----------------------------------------------------------------------------
\* C18: when every primary submission succeeded (the loop ended by its own
\* condition), remaining is below MIN_OFFER and no sweep is submitted; a
\* sweep is attempted only after a failed primary submission; and a balance
\* of exactly two chunks gives exactly two offers of CHUNK_SIZE at the first
\* two offsets of the ladder, remainder 0, no sweep.
C18_NoSweepAfterSuccess ==
    /\ loop_exit = "drained" =>
         /\ remaining < MIN_OFFER
         /\ sweep \in {"none", "skipped"}
         /\ pc \in {"idle", "done"} => sweep = "skipped"
         /\ last_submit.phase = "primary" /\ last_submit.ok
         /\ \A i \in DOMAIN offers : offers[i].phase = "primary"
    /\ sweep \in {"ok", "error"} => loop_exit = "error"
    /\ last_submit.phase = "sweep" => loop_exit = "error"
    /\ (loop_exit = "drained" /\ free_bal = 2 * CHUNK_SIZE) =>
         /\ Len(offers) = 2
         /\ \A i \in {1, 2} :
              /\ offers[i].phase = "primary"
              /\ offers[i].amount = CHUNK_SIZE
              /\ offers[i].offset = SPREAD_OFFSETS[i]
         /\ remaining = 0

\* A finished run on a balance of two chunks, both accepted.
C18_Witness ==
    /\ pc = "done"
    /\ free_bal = 2 * CHUNK_SIZE
    /\ loop_exit = "drained"
    /\ Len(offers) = 2
    /\ sweep = "skipped"


----------------------------------------------------------------------------
\* The phase of main a position belongs to: 1 cancel, 2 balance read,
\* 3 anchor resolution, 4 primary chunks, 5 sweep, 6 idle warning, 7 ended.
PhaseOf(p) ==
    CASE p = "cancel" -> 1
      [] p \in {"wallets", "balance"} -> 2
      [] p \in {"trades", "last_matched", "stats", "frr", "book", "frr_book", "guard"} -> 3
      [] p = "loop" -> 4
      [] p = "sweep" -> 5
      [] p = "idle" -> 6
      [] p = "done" -> 7

\* C19: the phases follow the order cancel, balance read, anchor resolution,
\* primary chunks, sweep, idle warning, and a run never goes back to an
\* earlier phase; an offer is submitted only in the primary and sweep
\* phases, each kind in its own; the bulk cancel is made in the cancel phase
\* only, once, before any submission; the anchor is assigned in its phase
\* only.
C19_PhaseOrder ==
    /\ [][PhaseOf(pc') >= PhaseOf(pc)]_vars
    /\ [][PhaseOf(pc') > PhaseOf(pc) + 1 => pc = "balance" /\ pc' = "done"]_vars
    /\ [][last_submit' # last_submit =>
            /\ pc \in {"loop", "sweep"}
            /\ last_submit'.phase = (IF pc = "loop" THEN "primary" ELSE "sweep")]_vars
    /\ [][offers' # offers => last_submit' # last_submit]_vars
    /\ [][cancel_count' # cancel_count =>
            /\ pc = "cancel"
            /\ cancel_count = 0
            /\ cancel_count' = 1
            /\ last_submit.phase = "none" /\ offers = <<>>]_vars
    /\ [](pc # "cancel" => cancel_count = (IF credentials THEN 1 ELSE 0))
    /\ [][free_bal' # free_bal => pc = "balance"]_vars
    /\ [][last_rate' # last_rate => PhaseOf(pc) = 3]_vars
    /\ [](sweep # "none" => pc \in {"idle", "done"})
    /\ [][idle_warned' # idle_warned => pc = "idle"]_vars

\* A finished run that went through every phase: cancelled, placed a chunk,
\* swept the rest after a failure, and warned of nothing.
C19_Witness ==
    /\ pc = "done"
    /\ cancel_count = 1
    /\ Len(PrimaryOffers) >= 1
    /\ sweep = "ok"
    /\ loop_exit = "error"


----------------------------------------------------------------------------
\* C20: the asset code sent in the bulk-cancel request is the asset code the
\* balance read uses to select the funding-wallet row, also when wallet
\* auto-detection switches the code.
C20_SameAssetCode ==
    (cancel_symbol # "none" /\ wallet_code # "none") => cancel_symbol = wallet_code

====
